---- MODULE Spec2Model ----
(***************************************************************************)
(* Syllabification of Greek words (src/src/syllabify.rs): the Modern       *)
(* scanner syllabify_el_ref, the Ancient parser syllabify_lang and its     *)
(* 3-state reference scanner syllabify_gr_ref.                             *)
(*                                                                         *)
(* A char is its Unicode scalar value; a &str is the sequence of its       *)
(* chars, and a byte offset into it is the sum of the UTF-8 lengths of     *)
(* the chars before it.  Positions are 0-based as in the source:           *)
(* chs[i] of the source is chs[i + 1] here.                                *)
(***************************************************************************)
EXTENDS Integers, Sequences, FiniteSets, TLC

(***************************** characters **********************************)
\* 'ι', 'υ', 'η': the literals of the scanners' matches
IOTA == 953
UPSILON == 965
ETA == 951
\* '~', the long-vowel marker of VOWELS_GR
TILDE == 126
\* Diacritic::ACUTE (U+0301) and Diacritic::ROUGH (U+0314), combining marks
ACUTE == 769
ROUGH == 788
\* '\0', the filler of the look-ahead buffer
NUL == 0
\* the width of idx_syllable (u8)
U8_MAX == 255

\* char::len_utf8
len_utf8(ch) == IF ch < 128 THEN 1 ELSE IF ch < 2048 THEN 2 ELSE IF ch < 65536 THEN 3 ELSE 4

\* base_lower_gc: the Greek and Coptic range (arms that return ch itself fall under OTHER)
base_lower_gc(ch) ==
  CASE ch \in {902, 913, 940} -> 945
    [] ch \in {904, 917, 941} -> 949
    [] ch \in {906, 912, 921, 943, 970} -> 953
    [] ch \in {905, 919, 942} -> 951
    [] ch \in {908, 927, 972} -> 959
    [] ch \in {910, 933, 944, 971, 973} -> 965
    [] ch \in {911, 937, 974} -> 969
    [] ch \in {914} -> 946
    [] ch \in {915} -> 947
    [] ch \in {916} -> 948
    [] ch \in {918} -> 950
    [] ch \in {920} -> 952
    [] ch \in {922} -> 954
    [] ch \in {923} -> 955
    [] ch \in {924} -> 956
    [] ch \in {925} -> 957
    [] ch \in {926} -> 958
    [] ch \in {928} -> 960
    [] ch \in {929} -> 961
    [] ch \in {931} -> 963
    [] ch \in {932} -> 964
    [] ch \in {934} -> 966
    [] ch \in {935} -> 967
    [] ch \in {936} -> 968
    [] ch \in {884} -> 697
    [] ch \in {901} -> 168
    [] OTHER -> ch

base_lower_ge(ch) ==
  CASE ch \in {7936, 7937, 7938, 7939, 7940, 7941, 7942, 7943, 7944, 7945, 7946, 7947, 7948, 7949,
         7950, 7951, 8048, 8049, 8064, 8065, 8066, 8067, 8068, 8069, 8070, 8071, 8072,
         8073, 8074, 8075, 8076, 8077, 8078, 8079, 8112, 8113, 8114, 8115, 8116, 8118,
         8119, 8120, 8121, 8122, 8123, 8124} -> 945
    [] ch \in {7952, 7953, 7954, 7955, 7956, 7957, 7960, 7961, 7962, 7963, 7964, 7965, 8050, 8051,
         8136, 8137} -> 949
    [] ch \in {7968, 7969, 7970, 7971, 7972, 7973, 7974, 7975, 7976, 7977, 7978, 7979, 7980, 7981,
         7982, 7983, 8052, 8053, 8080, 8081, 8082, 8083, 8084, 8085, 8086, 8087, 8088,
         8089, 8090, 8091, 8092, 8093, 8094, 8095, 8130, 8131, 8132, 8134, 8135, 8138,
         8139, 8140} -> 951
    [] ch \in {7984, 7985, 7986, 7987, 7988, 7989, 7990, 7991, 7992, 7993, 7994, 7995, 7996, 7997,
         7998, 7999, 8054, 8055, 8126, 8144, 8145, 8146, 8147, 8150, 8151, 8152, 8153,
         8154, 8155} -> 953
    [] ch \in {8000, 8001, 8002, 8003, 8004, 8005, 8008, 8009, 8010, 8011, 8012, 8013, 8056, 8057,
         8184, 8185} -> 959
    [] ch \in {8164, 8165, 8172} -> 961
    [] ch \in {8016, 8017, 8018, 8019, 8020, 8021, 8022, 8023, 8025, 8027, 8029, 8031, 8058, 8059,
         8160, 8161, 8162, 8163, 8166, 8167, 8168, 8169, 8170, 8171} -> 965
    [] ch \in {8032, 8033, 8034, 8035, 8036, 8037, 8038, 8039, 8040, 8041, 8042, 8043, 8044, 8045,
         8046, 8047, 8060, 8061, 8096, 8097, 8098, 8099, 8100, 8101, 8102, 8103, 8104,
         8105, 8106, 8107, 8108, 8109, 8110, 8111, 8178, 8179, 8180, 8182, 8183, 8186,
         8187, 8188} -> 969
    [] ch \in {8175} -> 96
    [] ch \in {8129, 8173, 8174} -> 168
    [] ch \in {8189} -> 180
    [] ch \in {8141, 8142, 8143} -> 8127
    [] ch \in {8157, 8158, 8159} -> 8190
    [] OTHER -> ch

base_lower(ch) ==
  IF ch >= 880 /\ ch <= 1023 THEN base_lower_gc(ch)
  ELSE IF ch >= 7936 /\ ch <= 8191 THEN base_lower_ge(ch)
  ELSE ch

\* has_diaeresis: the canonical decomposition of ch contains U+0308
has_diaeresis(ch) ==
  ch \in {776, 912, 938, 939, 944, 970, 971, 980, 8146, 8147, 8151, 8162, 8163, 8167}

(***************************** rule sets ***********************************)
VOWELS_GR == {945, 959, 949, 953, 951, 965, 969, TILDE, ACUTE}

DIPHTHONGS_GR ==
  {<<945, 953>>, <<949, 953>>, <<959, 953>>, <<965, 953>>,
   <<945, 965>>, <<949, 965>>, <<959, 965>>, <<951, 965>>}

CONS_CLUSTERS_GR ==
  {<<946, 948>>, <<946, 955>>, <<946, 961>>,
   <<947, 955>>, <<947, 957>>, <<947, 961>>,
   <<948, 961>>,
   <<952, 955>>, <<952, 957>>, <<952, 961>>,
   <<954, 955>>, <<954, 957>>, <<954, 961>>, <<954, 964>>,
   <<956, 957>>,
   <<960, 955>>, <<960, 957>>, <<960, 961>>, <<960, 964>>,
   <<963, 946>>, <<963, 952>>, <<963, 954>>, <<963, 956>>, <<963, 960>>, <<963, 964>>,
   <<963, 966>>, <<963, 967>>,
   <<964, 961>>,
   <<966, 952>>, <<966, 955>>, <<966, 961>>,
   <<967, 955>>, <<967, 961>>}

VOWELS_EL == {945, 959, 949, 953, 951, 965, 969}

DIPHTHONGS_EL ==
  {<<945, 953>>, <<949, 953>>, <<959, 953>>,
   <<945, 965>>, <<949, 965>>, <<959, 965>>, <<951, 965>>, <<965, 953>>}

\* the Modern table with the pair (σ, σ) added
CONS_CLUSTERS_EL_with_double ==
  {<<946, 948>>, <<946, 955>>, <<946, 961>>, <<946, 947>>,
   <<947, 954>>, <<947, 955>>, <<947, 957>>, <<947, 961>>,
   <<948, 961>>,
   <<952, 955>>, <<952, 957>>, <<952, 961>>,
   <<954, 955>>, <<954, 957>>, <<954, 961>>, <<954, 964>>,
   <<956, 957>>, <<956, 960>>,
   <<957, 964>>,
   <<960, 955>>, <<960, 957>>, <<960, 961>>, <<960, 964>>,
   <<963, 946>>, <<963, 952>>, <<963, 954>>, <<963, 964>>, <<963, 966>>, <<963, 967>>,
   <<963, 956>>, <<963, 960>>, <<963, 963>>,
   <<964, 956>>, <<964, 961>>, <<964, 950>>, <<964, 963>>, <<964, 955>>,
   <<966, 952>>, <<966, 955>>, <<966, 961>>, <<966, 964>>,
   <<967, 955>>, <<967, 961>>, <<967, 952>>, <<967, 964>>, <<967, 957>>}

CONS_CLUSTERS_EL ==
  {<<946, 948>>, <<946, 955>>, <<946, 961>>, <<946, 947>>,
   <<947, 954>>, <<947, 955>>, <<947, 957>>, <<947, 961>>,
   <<948, 961>>,
   <<952, 955>>, <<952, 957>>, <<952, 961>>,
   <<954, 955>>, <<954, 957>>, <<954, 961>>, <<954, 964>>,
   <<956, 957>>, <<956, 960>>,
   <<957, 964>>,
   <<960, 955>>, <<960, 957>>, <<960, 961>>, <<960, 964>>,
   <<963, 946>>, <<963, 952>>, <<963, 954>>, <<963, 964>>, <<963, 966>>, <<963, 967>>,
   <<963, 956>>, <<963, 960>>,
   <<964, 956>>, <<964, 961>>, <<964, 950>>, <<964, 963>>, <<964, 955>>,
   <<966, 952>>, <<966, 955>>, <<966, 961>>, <<966, 964>>,
   <<967, 955>>, <<967, 961>>, <<967, 952>>, <<967, 964>>, <<967, 957>>}

GR == [vowels |-> VOWELS_GR, diphthongs |-> DIPHTHONGS_GR, cons_clusters |-> CONS_CLUSTERS_GR]

EL == [vowels |-> VOWELS_EL, diphthongs |-> DIPHTHONGS_EL, cons_clusters |-> CONS_CLUSTERS_EL]

\* (a, b) compared as written, with no case or accent folding
CANDIDATE_MERGING_DIPHTHONGS_EL ==
  {<<945, 951>>, <<940, 951>>, <<945, 970>>, <<945, 912>>, <<940, 953>>, <<940, 970>>,
   <<959, 951>>, <<972, 951>>, <<959, 970>>, <<959, 912>>, <<972, 953>>, <<972, 970>>,
   <<965, 951>>, <<973, 951>>, <<965, 970>>, <<965, 912>>, <<973, 953>>, <<973, 970>>,
   <<965, 943>>}

(***************************** classifiers *********************************)
is_vowel(ch, lang) == base_lower(ch) \in lang.vowels

\* is_diphthong without the diaeresis test on the second char
is_diphthong_no_diaeresis(chs, lang) ==
  /\ Len(chs) = 2
  /\ <<base_lower(chs[1]), base_lower(chs[2])>> \in lang.diphthongs

\* chs is the slice handed to the function; only a slice of exactly two chars matches
is_diphthong(chs, lang) ==
  /\ Len(chs) = 2
  /\ <<base_lower(chs[1]), base_lower(chs[2])>> \in lang.diphthongs
  /\ ~has_diaeresis(chs[2])

\* [a, b, ..]: the first two chars of a slice of at least two
is_consonant_cluster(chs, lang) ==
  /\ Len(chs) >= 2
  /\ <<base_lower(chs[1]), base_lower(chs[2])>> \in lang.cons_clusters

\* is_candidate_diphthong answering false for every pair
is_candidate_diphthong_empty(chs) == FALSE

is_candidate_diphthong(chs) ==
  /\ Len(chs) = 2
  /\ <<chs[1], chs[2]>> \in CANDIDATE_MERGING_DIPHTHONGS_EL

is_vowel_gr(ch) == is_vowel(ch, GR)

is_diphthong_gr(chs) == is_diphthong(chs, GR)

is_consonant_cluster_gr(chs) == is_consonant_cluster(chs, GR)

is_diphthong_el(chs) == is_diphthong(chs, EL)

\* is_consonant_cluster_el looking the pair up in the Ancient table
is_consonant_cluster_el_gr_table(chs) == is_consonant_cluster(chs, GR)

is_consonant_cluster_el(chs) == is_consonant_cluster(chs, EL)

\* is_cons_el_opt without its upper-case arm
is_cons_el_opt_lower_only(ch) ==
  ch \in {946, 947, 948, 950, 952, 954, 955, 956, 957, 958, 960, 961, 963, 962, 964, 966,
          967, 968}

is_cons_el_opt(ch) ==
  ch \in {946, 947, 948, 950, 952, 954, 955, 956, 957, 958, 960, 961, 963, 962, 964, 966,
          967, 968,
          914, 915, 916, 918, 920, 922, 923, 924, 925, 926, 928, 929, 931, 932, 934, 935,
          936}

\* is_vowel_el_opt with the first range open below ('\u{0000}'..='\u{03FF}')
is_vowel_el_opt_open_range(ch) ==
  IF ch <= 1023 THEN ~is_cons_el_opt(ch)
  ELSE IF ch >= 7936 /\ ch <= 8191 THEN ch \notin {8164, 8165, 8172}
  ELSE FALSE

is_vowel_el_opt(ch) ==
  IF ch >= 880 /\ ch <= 1023 THEN ~is_cons_el_opt(ch)
  ELSE IF ch >= 7936 /\ ch <= 8191 THEN ch \notin {8164, 8165, 8172}
  ELSE FALSE

\* is_consonant_cluster_el_opt comparing the chars as written
is_consonant_cluster_el_opt_raw(a, b) == <<a, b>> \in CONS_CLUSTERS_EL

is_consonant_cluster_el_opt(a, b) == <<base_lower(a), base_lower(b)>> \in CONS_CLUSTERS_EL

(***************************** strings *************************************)
RECURSIVE byte_sum(_, _, _)
\* the sum of the UTF-8 lengths of chs[lo], ..., chs[hi], by halves
byte_sum(chs, lo, hi) ==
  IF lo > hi THEN 0
  ELSE IF lo = hi THEN len_utf8(chs[lo])
  ELSE LET mid == (lo + hi) \div 2
       IN  byte_sum(chs, lo, mid) + byte_sum(chs, mid + 1, hi)

\* the byte offset of the char at position pos: the sum of the UTF-8 lengths of chs[..pos]
get_byte_offset(pos, chs) == byte_sum(chs, 1, pos)

\* s.len()
str_len(s) == get_byte_offset(Len(s), s)

RECURSIVE floor_pos(_, _, _, _, _)
\* <<p, offset of p>> for the last position p of lo..hi whose byte offset is at most a;
\* base is the byte offset of lo (offsets grow with the position)
floor_pos(s, a, lo, hi, base) ==
  IF lo = hi THEN <<lo, base>>
  ELSE LET mid == (lo + hi + 1) \div 2
           off == base + byte_sum(s, lo + 1, mid)
       IN  IF off <= a THEN floor_pos(s, a, mid, hi, off)
           ELSE floor_pos(s, a, lo, mid - 1, base)

\* the position of the char that starts at, or holds, byte a
char_pos(s, a) == floor_pos(s, a, 0, Len(s), 0)[1]

\* s.is_char_boundary(a)
is_char_boundary(s, a) == a >= 0 /\ floor_pos(s, a, 0, Len(s), 0)[2] = a

\* &s[a..b] succeeds
slice_ok(s, a, b) == a <= b /\ is_char_boundary(s, a) /\ is_char_boundary(s, b)

\* &s[a..b], for a slice that succeeds
str_slice(s, a, b) == SubSeq(s, char_pos(s, a) + 1, char_pos(s, b))

\* &chs[a..b] of a char array, for 0 <= a <= b <= chs.len()
chs_slice(chs, a, b) == SubSeq(chs, a + 1, b)

\* Vec::reverse
reverse(v) == [i \in 1..Len(v) |-> v[Len(v) + 1 - i]]

RECURSIVE concat(_)
\* the syllables joined with nothing between them
concat(v) == IF v = <<>> THEN <<>> ELSE Head(v) \o concat(Tail(v))

(***************************** merge policy ********************************)
\* Merge::Every, Merge::Never, Merge::Indices(idxs): idxs is kept as the set of its values
Every == [kind |-> "Every", idxs |-> {}]

Never == [kind |-> "Never", idxs |-> {}]

Indices(S) == [kind |-> "Indices", idxs |-> S]

\* merge_to_bool with the arms of Every and Never exchanged
merge_to_bool_swapped(idx_syllable, merge) ==
  CASE merge.kind = "Every" -> FALSE
    [] merge.kind = "Never" -> TRUE
    [] OTHER -> idx_syllable \in merge.idxs

\* merge_to_bool reading idxs as 0-based
merge_to_bool_zero_based(idx_syllable, merge) ==
  CASE merge.kind = "Every" -> TRUE
    [] merge.kind = "Never" -> FALSE
    [] OTHER -> (idx_syllable - 1) \in merge.idxs

\* merge_to_bool answering false for Merge::Every
merge_to_bool_every_off(idx_syllable, merge) ==
  CASE merge.kind = "Every" -> FALSE
    [] merge.kind = "Never" -> FALSE
    [] OTHER -> idx_syllable \in merge.idxs

merge_to_bool(idx_syllable, merge) ==
  CASE merge.kind = "Every" -> TRUE
    [] merge.kind = "Never" -> FALSE
    [] OTHER -> idx_syllable \in merge.idxs

(***************************** bounds **************************************)
\* words of at most MaxLen chars
MaxLen == 4
\* Merge::Indices slices hold values of 1..MaxIdx
MaxIdx == 2

\* The chars words are drawn from: a word is over one of these alphabets.
Alphabets ==
  { {945, 953, 965, 963, 964},    \* α ι υ σ τ : diphthongs, the run αυι, clusters
    {959, 973, 953, 951, 957},    \* ο ύ ι η ν : candidate pairs, synizesis
    {945, 949, 970, 971, 963},    \* α ε ϊ ϋ σ : diaeresis
    {97, 49, 46, TILDE},          \* a 1 . ~   : no Greek char
    {945, TILDE, ACUTE, ROUGH, 957},  \* α ~ and the combining marks, ν
    {7937, 931, 932, 921, 97},    \* ἁ Σ Τ Ι a : 3-, 2- and 1-byte chars, upper case
    {940, 953, 912, 965, 961},    \* ά ι ΐ υ ρ : candidate pairs over a diphthong
    {959, 965, 921, 943, 961},    \* ο υ Ι ί ρ : the run ουι in upper case and accented
    {949, 951, 965, 953, 963} }   \* ε η υ ι σ : the runs ευι and ηυι

WordsOver(A, n) == UNION {[1..k -> A] : k \in 0..n}

Words == UNION {WordsOver(A, MaxLen) : A \in Alphabets}

Policies == {Every, Never} \cup {Indices(S) : S \in SUBSET (1..MaxIdx)}

(***************************** state ***************************************)
VARIABLES
  word,    \* s, the argument of the call
  merge,   \* the Merge argument
  call,    \* "el": syllabify_el_mode(s, merge); "gr": syllabify_gr_ref(s), then syllabify_gr(s)
  el,      \* the locals of syllabify_el_ref
  gr,      \* the locals of syllabify_gr_ref
  lg,      \* the locals of syllabify_lang
  ret,     \* the call of a text function (to_monotonic, split_punctuation, ...): its return
  arr      \* the locals of _syllabify_el_ref

vars == <<word, merge, call, el, gr, lg, ret, arr>>

Min(a, b) == IF a < b THEN a ELSE b

(***************************** syllabify_el_ref ****************************)
\* The locals on entry. it counts the chars char_indices().rev() has not yielded yet;
\* emitted lists the offsets handed to dump_at, in order.
el_init(s, m) ==
  [pc |-> "scan", state |-> "Start", idx_syllable |-> 1, cur_merge |-> merge_to_bool(1, m),
   to_byte |-> str_len(s), buffer |-> <<<<0, NUL>>, <<0, NUL>>, <<0, NUL>>>>, buf_len |-> 0,
   out |-> <<>>, it |-> Len(s), emitted |-> <<>>, fault |-> "none"]

\* dump_at!(fr_byte). debug: the build checks arithmetic overflow (and debug_assert!).
el_dump_at(L, s, m, fr_byte, debug) ==
  IF ~slice_ok(s, fr_byte, L.to_byte) THEN [L EXCEPT !.pc = "panic", !.fault = "slice"]
  ELSE
    LET pushed == [L EXCEPT !.out = Append(@, str_slice(s, fr_byte, L.to_byte)),
                            !.to_byte = fr_byte,
                            !.emitted = Append(@, fr_byte)]
        next_idx == (L.idx_syllable + 1) % (U8_MAX + 1)
    IN  IF L.idx_syllable = U8_MAX /\ debug
        THEN [pushed EXCEPT !.pc = "panic", !.fault = "overflow"]
        ELSE [pushed EXCEPT !.idx_syllable = next_idx,
                            !.cur_merge = merge_to_bool(next_idx, m)]

\* State::Start going on to the onset when the char is no vowel
el_on_start_to_consonant(B, vowel) ==
  IF vowel THEN [B EXCEPT !.state = "FoundVowel"] ELSE [B EXCEPT !.state = "FoundConsonant"]

\* State::Start, with the buffer already slid (B)
el_on_start(B, vowel) ==
  IF vowel THEN [B EXCEPT !.state = "FoundVowel"] ELSE B

\* State::FoundVowel without the dump at an iota two places to the right
el_on_found_vowel_no_overlap(B, s, m, vowel, debug) ==
  LET ch == B.buffer[1][2]
      next_idx == B.buffer[2][1]
      next_ch == B.buffer[2][2]
      icd == is_candidate_diphthong(<<ch, next_ch>>)
  IN  IF vowel THEN
        IF debug /\ ~(B.buf_len >= 2) THEN [B EXCEPT !.pc = "panic", !.fault = "assert"]
        ELSE IF B.cur_merge /\ (ch \in {IOTA, UPSILON, ETA} \/ icd) THEN B
        ELSE IF ~icd /\ is_diphthong_el(<<ch, next_ch>>) THEN B
        ELSE el_dump_at(B, s, m, next_idx, debug)
      ELSE [B EXCEPT !.state = "FoundConsonant"]

\* State::FoundVowel. buffer[1] of the source is B.buffer[2], buffer[2] is B.buffer[3].
el_on_found_vowel(B, s, m, vowel, debug) ==
  LET ch == B.buffer[1][2]
      next_idx == B.buffer[2][1]
      next_ch == B.buffer[2][2]
      after_next_idx == B.buffer[3][1]
      after_next_ch == B.buffer[3][2]
      icd == is_candidate_diphthong(<<ch, next_ch>>)
  IN  IF vowel THEN
        IF debug /\ ~(B.buf_len >= 2) THEN [B EXCEPT !.pc = "panic", !.fault = "assert"]
        ELSE IF B.cur_merge /\ (ch \in {IOTA, UPSILON, ETA} \/ icd) THEN B
        ELSE IF ~icd /\ is_diphthong_el(<<ch, next_ch>>) THEN
          IF after_next_ch = IOTA THEN
            IF debug /\ ~(B.buf_len >= 3) THEN [B EXCEPT !.pc = "panic", !.fault = "assert"]
            ELSE el_dump_at(B, s, m, after_next_idx, debug)
          ELSE B
        ELSE el_dump_at(B, s, m, next_idx, debug)
      ELSE [B EXCEPT !.state = "FoundConsonant"]

\* State::FoundConsonant with no dump when a vowel is reached
el_on_found_consonant_no_dump(B, s, m, vowel, debug) ==
  LET ch == B.buffer[1][2]
      next_idx == B.buffer[2][1]
      next_ch == B.buffer[2][2]
  IN  IF vowel THEN [B EXCEPT !.state = "FoundVowel"]
      ELSE IF ~is_consonant_cluster_el_opt(ch, next_ch) THEN
        LET D == el_dump_at(B, s, m, next_idx, debug)
        IN  IF D.pc = "panic" THEN D ELSE [D EXCEPT !.state = "Start"]
      ELSE B

\* State::FoundConsonant
el_on_found_consonant(B, s, m, vowel, debug) ==
  LET ch == B.buffer[1][2]
      next_idx == B.buffer[2][1]
      next_ch == B.buffer[2][2]
  IN  IF vowel THEN
        LET D == el_dump_at(B, s, m, next_idx, debug)
        IN  IF D.pc = "panic" THEN D ELSE [D EXCEPT !.state = "FoundVowel"]
      ELSE IF ~is_consonant_cluster_el_opt(ch, next_ch) THEN
        LET D == el_dump_at(B, s, m, next_idx, debug)
        IN  IF D.pc = "panic" THEN D ELSE [D EXCEPT !.state = "Start"]
      ELSE B

\* el_step without buffer.copy_within(0..2, 1): only buffer[0] is written
el_step_no_slide(L, s, m, debug) ==
  LET i == L.it - 1
      fr_byte == get_byte_offset(i, s)
      ch == s[i + 1]
      B == [L EXCEPT !.buffer = <<<<fr_byte, ch>>, L.buffer[2], L.buffer[3]>>,
                     !.buf_len = Min(L.buf_len, 2) + 1,
                     !.it = i]
      vowel == is_vowel_el_opt(ch)
  IN  CASE L.state = "Start" -> el_on_start(B, vowel)
        [] L.state = "FoundVowel" -> el_on_found_vowel(B, s, m, vowel, debug)
        [] OTHER -> el_on_found_consonant(B, s, m, vowel, debug)

\* One iteration of the for loop: the next char from the end.
el_step(L, s, m, debug) ==
  LET i == L.it - 1
      fr_byte == get_byte_offset(i, s)
      ch == s[i + 1]
      B == [L EXCEPT !.buffer = <<<<fr_byte, ch>>, L.buffer[1], L.buffer[2]>>,
                     !.buf_len = Min(L.buf_len, 2) + 1,
                     !.it = i]
      vowel == is_vowel_el_opt(ch)
  IN  CASE L.state = "Start" -> el_on_start(B, vowel)
        [] L.state = "FoundVowel" -> el_on_found_vowel(B, s, m, vowel, debug)
        [] OTHER -> el_on_found_consonant(B, s, m, vowel, debug)

\* el_finish without the final push
el_finish_no_flush(L, s) == [L EXCEPT !.out = reverse(@), !.pc = "done"]

\* el_finish pushing &s[..to_byte] whatever to_byte is
el_finish_always_flush(L, s) ==
  IF ~slice_ok(s, 0, L.to_byte) THEN [L EXCEPT !.pc = "panic", !.fault = "slice"]
  ELSE [L EXCEPT !.out = reverse(Append(@, str_slice(s, 0, L.to_byte))), !.pc = "done"]

\* After the loop: the rest of the word, out.reverse(), return.
el_finish(L, s) ==
  IF L.to_byte > 0 THEN
    IF ~slice_ok(s, 0, L.to_byte) THEN [L EXCEPT !.pc = "panic", !.fault = "slice"]
    ELSE [L EXCEPT !.out = reverse(Append(@, str_slice(s, 0, L.to_byte))), !.pc = "done"]
  ELSE [L EXCEPT !.out = reverse(@), !.pc = "done"]

RECURSIVE el_run(_, _, _)
el_run(L, s, m) ==
  IF L.pc # "scan" THEN L
  ELSE IF L.it = 0 THEN el_finish(L, s)
  ELSE el_run(el_step(L, s, m, FALSE), s, m)

\* syllabify_el_ref(s, merge) as a function of its arguments: the locals at its end
syllabify_el_ref(s, m) == el_run(el_init(s, m), s, m)

\* syllabify_el_mode(s, merge): the syllables returned
syllabify_el_mode(s, m) == syllabify_el_ref(s, m).out

(***************************** _syllabify_el_ref ***************************)
\* The locals on entry. chs is s itself; it counts the chars chs.iter().enumerate().rev()
\* has not yielded yet.
arr_init(s, m) ==
  [pc |-> "scan", state |-> "Start", to |-> Len(s), to_byte |-> str_len(s),
   idx_syllable |-> 1, cur_merge |-> merge_to_bool(1, m), out |-> <<>>, it |-> Len(s),
   fault |-> "none"]

\* dump_at!(fr) of _syllabify_el_ref: fr is a char position
arr_dump_at(L, s, m, fr, debug) ==
  LET fr_byte == get_byte_offset(fr, s)
  IN  IF ~slice_ok(s, fr_byte, L.to_byte) THEN [L EXCEPT !.pc = "panic", !.fault = "slice"]
      ELSE
        LET pushed == [L EXCEPT !.out = Append(@, str_slice(s, fr_byte, L.to_byte)),
                                !.to_byte = fr_byte,
                                !.to = fr]
            next_idx == (L.idx_syllable + 1) % (U8_MAX + 1)
        IN  IF L.idx_syllable = U8_MAX /\ debug
            THEN [pushed EXCEPT !.pc = "panic", !.fault = "overflow"]
            ELSE [pushed EXCEPT !.idx_syllable = next_idx,
                                !.cur_merge = merge_to_bool(next_idx, m)]

\* One iteration of the for loop; &chs[a..b] with b > chs.len() or a > b panics.
arr_step(L, s, m, debug) ==
  LET fr == L.it - 1
      ch == s[fr + 1]
      B == [L EXCEPT !.it = fr]
      vowel == is_vowel_el_opt(ch)
  IN
  CASE L.state = "Start" ->
         IF vowel THEN [B EXCEPT !.state = "FoundVowel"] ELSE B
    [] L.state = "FoundVowel" ->
         IF vowel THEN
           IF fr + 2 > Len(s) THEN [B EXCEPT !.pc = "panic", !.fault = "index"]
           ELSE
             LET icd == is_candidate_diphthong(chs_slice(s, fr, fr + 2))
             IN  IF L.cur_merge /\ (ch \in {IOTA, UPSILON, ETA} \/ icd) THEN B
                 ELSE IF ~icd /\ is_diphthong_el(chs_slice(s, fr, fr + 2)) THEN
                   IF fr + 2 < Len(s) /\ s[fr + 3] = IOTA
                     THEN arr_dump_at(B, s, m, fr + 2, debug)
                     ELSE B
                 ELSE arr_dump_at(B, s, m, fr + 1, debug)
         ELSE [B EXCEPT !.state = "FoundConsonant"]
    [] OTHER ->
         IF vowel THEN
           LET D == arr_dump_at(B, s, m, fr + 1, debug)
           IN  IF D.pc = "panic" THEN D ELSE [D EXCEPT !.state = "FoundVowel"]
         ELSE IF fr > L.to THEN [B EXCEPT !.pc = "panic", !.fault = "index"]
         ELSE IF ~is_consonant_cluster_el(chs_slice(s, fr, L.to)) THEN
           LET D == arr_dump_at(B, s, m, fr + 1, debug)
           IN  IF D.pc = "panic" THEN D ELSE [D EXCEPT !.state = "Start"]
         ELSE B

\* After the loop: the rest of the word, out.reverse(), return.
arr_finish(L, s) ==
  IF 0 < L.to_byte THEN
    IF ~slice_ok(s, 0, L.to_byte) THEN [L EXCEPT !.pc = "panic", !.fault = "slice"]
    ELSE [L EXCEPT !.out = reverse(Append(@, str_slice(s, 0, L.to_byte))), !.pc = "done"]
  ELSE [L EXCEPT !.out = reverse(@), !.pc = "done"]

(***************************** syllabify_lang ******************************)
RECURSIVE move_coda(_, _, _)
move_coda(chs, pos, lang) ==
  IF pos > 0 /\ ~is_vowel(chs[pos], lang) THEN move_coda(chs, pos - 1, lang) ELSE pos

\* chs.get(pos - 1) is one of 'ι', 'υ', 'η'
is_candidate_synizesis(chs, pos) ==
  pos - 1 < Len(chs) /\ chs[pos] \in {IOTA, UPSILON, ETA}

RECURSIVE nucleus_loop_unguarded(_, _, _, _, _)
\* nucleus_loop stepping back to an iota two places to the right without the test to - *pos > 1
nucleus_loop_unguarded(chs, pos, to, lang, m) ==
  IF pos > 0 /\ (is_vowel(chs[pos], lang) \/ chs[pos] = ROUGH) THEN
    IF to - pos > 0 /\ chs[pos + 1] # ACUTE /\ chs[pos + 1] # ROUGH THEN
      LET icd == is_candidate_diphthong(chs_slice(chs, pos - 1, pos + 1))
      IN  IF m /\ (is_candidate_synizesis(chs, pos) \/ icd)
            THEN nucleus_loop_unguarded(chs, pos - 1, to, lang, m)
          ELSE IF ~icd /\ is_diphthong(chs_slice(chs, pos - 1, pos + 1), lang) THEN
            IF pos + 1 < Len(chs) /\ chs[pos + 2] = IOTA
              THEN pos + 1
              ELSE nucleus_loop_unguarded(chs, pos - 1, to, lang, m)
          ELSE pos
    ELSE nucleus_loop_unguarded(chs, pos - 1, to, lang, m)
  ELSE pos

RECURSIVE nucleus_loop(_, _, _, _, _)
\* The while loop of move_nucleus, entered with *pos = pos; to is the value of *pos on entry.
nucleus_loop(chs, pos, to, lang, m) ==
  IF pos > 0 /\ (is_vowel(chs[pos], lang) \/ chs[pos] = ROUGH) THEN
    IF to - pos > 0 /\ chs[pos + 1] # ACUTE /\ chs[pos + 1] # ROUGH THEN
      LET icd == is_candidate_diphthong(chs_slice(chs, pos - 1, pos + 1))
      IN  IF m /\ (is_candidate_synizesis(chs, pos) \/ icd)
            THEN nucleus_loop(chs, pos - 1, to, lang, m)
          ELSE IF ~icd /\ is_diphthong(chs_slice(chs, pos - 1, pos + 1), lang) THEN
            IF to - pos > 1 /\ pos + 1 < Len(chs) /\ chs[pos + 2] = IOTA
              THEN pos + 1
              ELSE nucleus_loop(chs, pos - 1, to, lang, m)
          ELSE pos
    ELSE nucleus_loop(chs, pos - 1, to, lang, m)
  ELSE pos

move_nucleus(chs, pos, lang, m) == nucleus_loop(chs, pos, pos, lang, m)

RECURSIVE onset_loop(_, _, _, _)
onset_loop(chs, pos, to, lang) ==
  IF /\ pos > 0
     /\ ~is_vowel(chs[pos], lang)
     /\ (to = pos \/ is_consonant_cluster(chs_slice(chs, pos - 1, to), lang))
  THEN onset_loop(chs, pos - 1, to, lang)
  ELSE pos

move_onset(chs, pos, lang) == onset_loop(chs, pos, pos, lang)

\* Some(to) is to; None is -1
parse_syllable_break(chs, fr, lang, m) ==
  LET to == move_onset(chs, move_nucleus(chs, move_coda(chs, fr, lang), lang, m), lang)
  IN  IF fr > to THEN to ELSE -1

lang_init(s) ==
  [pc |-> "loop", fr |-> Len(s), fr_byte |-> get_byte_offset(Len(s), s),
   syllables |-> <<>>, idx_syllable |-> 1, fault |-> "none"]

\* One iteration of the loop; the iteration that breaks also reverses and returns.
lang_step(L, s, lang, m, debug) ==
  LET cur_merge == CASE m.kind = "Every" -> TRUE
                     [] m.kind = "Never" -> FALSE
                     [] OTHER -> L.idx_syllable \in m.idxs
      next_idx == (L.idx_syllable + 1) % (U8_MAX + 1)
      to == parse_syllable_break(s, L.fr, lang, cur_merge)
      to_byte == get_byte_offset(to, s)
  IN  IF L.idx_syllable = U8_MAX /\ debug THEN [L EXCEPT !.pc = "panic", !.fault = "overflow"]
      ELSE IF to # -1 THEN
        IF ~slice_ok(s, to_byte, L.fr_byte)
        THEN [L EXCEPT !.pc = "panic", !.fault = "slice", !.idx_syllable = next_idx]
        ELSE [L EXCEPT !.idx_syllable = next_idx,
                       !.syllables = Append(@, str_slice(s, to_byte, L.fr_byte)),
                       !.fr = to,
                       !.fr_byte = to_byte]
      ELSE [L EXCEPT !.idx_syllable = next_idx, !.syllables = reverse(@), !.pc = "done"]

RECURSIVE lang_run(_, _, _, _)
lang_run(L, s, lang, m) ==
  IF L.pc # "loop" THEN L ELSE lang_run(lang_step(L, s, lang, m, FALSE), s, lang, m)

syllabify_lang(s, lang, m) == lang_run(lang_init(s), s, lang, m).syllables

syllabify_gr(s) == syllabify_lang(s, GR, Never)

(***************************** syllabify_gr_ref ****************************)
gr_init(s) ==
  [pc |-> "scan", state |-> "Start", to |-> Len(s), out |-> <<>>, it |-> Len(s),
   fault |-> "none"]

\* dumpmove(&chs, fr, &mut to, &mut out, s)
dumpmove(L, chs, fr, src) ==
  LET start == get_byte_offset(fr, chs)
      end == get_byte_offset(L.to, chs)
  IN  IF ~slice_ok(src, start, end) THEN [L EXCEPT !.pc = "panic", !.fault = "slice"]
      ELSE [L EXCEPT !.out = Append(@, str_slice(src, start, end)), !.to = fr]

\* One iteration of the for loop over chs.iter().enumerate().rev()
gr_step(L, s) ==
  LET fr == L.it - 1
      ch == s[fr + 1]
      B == [L EXCEPT !.it = fr]
  IN
  CASE L.state = "Start" ->
         IF is_vowel_gr(ch) THEN [B EXCEPT !.state = "FoundVowel"] ELSE B
    [] L.state = "FoundVowel" ->
         IF is_vowel_gr(ch) \/ ch = ROUGH THEN
           LET prev == s[fr + 2]
           IN  IF prev = ACUTE \/ prev = ROUGH THEN B
               ELSE IF /\ ~is_candidate_diphthong(chs_slice(s, fr, fr + 2))
                       /\ is_diphthong_gr(chs_slice(s, fr, fr + 2)) THEN
                 IF fr + 2 < Len(s) /\ s[fr + 3] = IOTA THEN
                   IF fr + 2 < L.to THEN dumpmove(B, s, fr + 2, s) ELSE B
                 ELSE B
               ELSE dumpmove(B, s, fr + 1, s)
         ELSE [B EXCEPT !.state = "FoundConsonant"]
    [] OTHER ->
         IF is_vowel_gr(ch) THEN
           LET D == dumpmove(B, s, fr + 1, s)
           IN  IF D.pc = "panic" THEN D ELSE [D EXCEPT !.state = "FoundVowel"]
         ELSE IF ~is_consonant_cluster_gr(chs_slice(s, fr, L.to)) THEN
           LET D == dumpmove(B, s, fr + 1, s)
           IN  IF D.pc = "panic" THEN D ELSE [D EXCEPT !.state = "Start"]
         ELSE B

gr_finish(L, s) ==
  LET D == IF 0 < L.to THEN dumpmove(L, s, 0, s) ELSE L
  IN  IF D.pc = "panic" THEN D ELSE [D EXCEPT !.out = reverse(@), !.pc = "done"]

RECURSIVE gr_run(_, _)
gr_run(L, s) ==
  IF L.pc # "scan" THEN L
  ELSE IF L.it = 0 THEN gr_finish(L, s)
  ELSE gr_run(gr_step(L, s), s)

syllabify_gr_ref(s) == gr_run(gr_init(s), s).out

(***************************** text functions ******************************)
\* char::is_whitespace (White_Space)
is_whitespace(ch) ==
  \/ ch \in {9, 10, 11, 12, 13, 32, 133, 160, 5760, 8232, 8233, 8239, 8287, 12288}
  \/ (ch >= 8192 /\ ch <= 8202)

is_greek_char(ch) == (ch >= 880 /\ ch <= 1023) \/ (ch >= 7936 /\ ch <= 8191)

is_greek_letter(ch) ==
  IF ch \in {885, 894, 900, 901, 903, 1014, 8125, 8127, 8128, 8129, 8141, 8142, 8143,
             8157, 8158, 8159, 8173, 8174, 8175, 8189, 8190}
  THEN FALSE
  ELSE is_greek_char(ch)

\* char::is_alphabetic on the chars of the model: the ASCII and Latin-1 letters, the
\* modifier letter apostrophe U+02BC, the combining ypogegrammeni U+0345 and the Greek
\* letters; digits, punctuation, spaces and the other combining marks are not alphabetic
is_alphabetic(ch) ==
  \/ (ch >= 65 /\ ch <= 90) \/ (ch >= 97 /\ ch <= 122)
  \/ ch \in {170, 181, 186}
  \/ (ch >= 192 /\ ch <= 255 /\ ch \notin {215, 247})
  \/ ch \in {700, 837}
  \/ is_greek_letter(ch)

is_greek_word(s) ==
  \A i \in 1..Len(s) : is_greek_char(s[i]) \/ s[i] = 700 \/ ~is_alphabetic(s[i])

not_punct(ch) == is_greek_letter(ch) \/ (ch # 700 /\ is_alphabetic(ch))

\* the chars find_map stops at, from the left and from the right
not_punct_at(s) == {i \in 1..Len(s) : not_punct(s[i])}

\* split_punctuation with the core cut after its first char
split_punctuation_short_core(s) ==
  IF not_punct_at(s) = {} THEN <<s, <<>>, <<>>>>
  ELSE LET start == CHOOSE i \in not_punct_at(s) : \A j \in not_punct_at(s) : i <= j
       IN <<SubSeq(s, 1, start - 1), SubSeq(s, start, start), SubSeq(s, start + 1, Len(s))>>

\* (&s[..start], &s[start..end], &s[end..]): start is the offset of the first char that is
\* no punctuation, end the offset after the last one; the offsets are char boundaries, so
\* the slices are taken by char position
split_punctuation(s) ==
  IF not_punct_at(s) = {} THEN <<s, <<>>, <<>>>>
  ELSE LET start == CHOOSE i \in not_punct_at(s) : \A j \in not_punct_at(s) : i <= j
           end == CHOOSE i \in not_punct_at(s) : \A j \in not_punct_at(s) : i >= j
       IN <<SubSeq(s, 1, start - 1), SubSeq(s, start, end), SubSeq(s, end + 1, Len(s))>>

\* the 35 consonants extract_vowels drops
CONSONANTS ==
  {946, 947, 948, 950, 952, 954, 955, 956, 957, 958, 960, 961, 963, 962, 964, 966, 967, 968,
   914, 915, 916, 918, 920, 922, 923, 924, 925, 926, 928, 929, 931, 932, 934, 935, 936}

extract_vowels(s) == SelectSeq(s, LAMBDA ch : ch \notin CONSONANTS)

ends_with(s, e) == Len(s) >= Len(e) /\ SubSeq(s, Len(s) - Len(e) + 1, Len(s)) = e

\* όι Όι έι Έι άι Άι όυ Όυ έυ Έυ άυ Άυ
DIPHTHONGS ==
  {<<972, 953>>, <<908, 953>>, <<941, 953>>, <<904, 953>>, <<940, 953>>, <<902, 953>>,
   <<972, 965>>, <<908, 965>>, <<941, 965>>, <<904, 965>>, <<940, 965>>, <<902, 965>>}

ends_with_diphthong(s) == \E e \in DIPHTHONGS : ends_with(extract_vowels(s), e)

\* the combining marks of accents::Accent and accents::Breathing
GRAVE == 768
CIRCUMFLEX == 834
IOTA_SUBSCRIPT == 837
SMOOTH == 787

\* char::nfd of the precomposed Greek chars the texts of the model hold; any other char
\* of the model decomposes to itself
nfd_char(ch) ==
  CASE ch = 940 -> <<945, ACUTE>>   [] ch = 941 -> <<949, ACUTE>>
    [] ch = 942 -> <<951, ACUTE>>   [] ch = 943 -> <<953, ACUTE>>
    [] ch = 972 -> <<959, ACUTE>>   [] ch = 973 -> <<965, ACUTE>>
    [] ch = 974 -> <<969, ACUTE>>   [] ch = 902 -> <<913, ACUTE>>
    [] ch = 904 -> <<917, ACUTE>>   [] ch = 908 -> <<927, ACUTE>>
    [] ch = 970 -> <<953, 776>>     [] ch = 971 -> <<965, 776>>
    [] ch = 912 -> <<953, 776, ACUTE>>
    [] ch = 944 -> <<965, 776, ACUTE>>
    [] ch = 7936 -> <<945, SMOOTH>> [] ch = 7937 -> <<945, ROUGH>>
    [] ch = 8048 -> <<945, GRAVE>>  [] ch = 8056 -> <<959, GRAVE>>
    [] ch = 8058 -> <<965, GRAVE>>  [] ch = 8060 -> <<969, GRAVE>>
    [] ch = 8115 -> <<945, IOTA_SUBSCRIPT>>
    [] ch = 8150 -> <<953, CIRCUMFLEX>>
    [] OTHER -> <<ch>>

RECURSIVE nfd(_)
nfd(s) == IF s = <<>> THEN <<>> ELSE nfd_char(Head(s)) \o nfd(Tail(s))

\* canonical composition of a char with the mark after it, for the pairs above
COMPOSE ==
  (<<945, ACUTE>> :> 940) @@ (<<949, ACUTE>> :> 941) @@ (<<951, ACUTE>> :> 942) @@
  (<<953, ACUTE>> :> 943) @@ (<<959, ACUTE>> :> 972) @@ (<<965, ACUTE>> :> 973) @@
  (<<969, ACUTE>> :> 974) @@ (<<913, ACUTE>> :> 902) @@ (<<917, ACUTE>> :> 904) @@
  (<<927, ACUTE>> :> 908) @@ (<<953, 776>> :> 970) @@ (<<965, 776>> :> 971) @@
  (<<970, ACUTE>> :> 912) @@ (<<971, ACUTE>> :> 944) @@
  (<<945, SMOOTH>> :> 7936) @@ (<<945, ROUGH>> :> 7937) @@
  (<<945, GRAVE>> :> 8048) @@ (<<959, GRAVE>> :> 8056) @@ (<<965, GRAVE>> :> 8058) @@
  (<<969, GRAVE>> :> 8060) @@ (<<945, IOTA_SUBSCRIPT>> :> 8115) @@
  (<<953, CIRCUMFLEX>> :> 8150)

RECURSIVE nfc_from(_, _)
\* acc is composed already; the next char joins the last char of acc when the two compose
nfc_from(acc, s) ==
  IF s = <<>> THEN acc
  ELSE IF acc # <<>> /\ <<acc[Len(acc)], Head(s)>> \in DOMAIN COMPOSE
    THEN nfc_from([acc EXCEPT ![Len(acc)] = COMPOSE[<<acc[Len(acc)], Head(s)>>]], Tail(s))
    ELSE nfc_from(Append(acc, Head(s)), Tail(s))

nfc(s) == nfc_from(<<>>, s)

DIACRITICS_TO_REMOVE == {IOTA_SUBSCRIPT, ROUGH, SMOOTH}

RECURSIVE filter_map_acute(_)
\* the filter_map of convert_to_acute: breathings and iota subscript dropped, grave and
\* circumflex turned into ACUTE
filter_map_acute(s) ==
  IF s = <<>> THEN <<>>
  ELSE IF Head(s) \in DIACRITICS_TO_REMOVE THEN filter_map_acute(Tail(s))
  ELSE IF Head(s) \in {GRAVE, CIRCUMFLEX} THEN <<ACUTE>> \o filter_map_acute(Tail(s))
  ELSE <<Head(s)>> \o filter_map_acute(Tail(s))

convert_to_acute(s) == nfc(filter_map_acute(nfd(s)))

\* ποὺ Ποὺ πὼς Πὼς ποιὸς Ποιὸς ποιὰ Ποιὰ
SPECIAL_CASES ==
  (<<960, 959, 8058>> :> <<960, 959, 965>>) @@
  (<<928, 959, 8058>> :> <<928, 959, 965>>) @@
  (<<960, 8060, 962>> :> <<960, 969, 962>>) @@
  (<<928, 8060, 962>> :> <<928, 969, 962>>) @@
  (<<960, 959, 953, 8056, 962>> :> <<960, 959, 953, 959, 962>>) @@
  (<<928, 959, 953, 8056, 962>> :> <<928, 959, 953, 959, 962>>) @@
  (<<960, 959, 953, 8048>> :> <<960, 959, 953, 945>>) @@
  (<<928, 959, 953, 8048>> :> <<928, 959, 953, 945>>)

special_cases(s) ==
  IF s \in DOMAIN SPECIAL_CASES THEN [found |-> TRUE, ret |-> SPECIAL_CASES[s]]
  ELSE [found |-> FALSE, ret |-> <<>>]

\* accents::has_acute: some char of s decomposes to a sequence with the acute mark
has_acute(s) == \E i \in 1..Len(nfd(s)) : nfd(s)[i] = ACUTE

\* The match on the syllables of out (to_monotonic_word), for a word without an acute: its
\* arms return out, remove_acute(&out) or remove_diacritic_at(&out, 1, ACUTE), which all
\* are out when no char of out has an acute. The arm taken for a word with an acute depends
\* on crate::syllabify::syllabify, and the texts of the model hold no such word.
accent_rules(out) == CASE ~has_acute(out) -> out

to_monotonic_word(s) ==
  IF ~is_greek_word(s) THEN s
  ELSE LET sp == split_punctuation(s)
           sc == special_cases(sp[2])
       IN IF sc.found THEN sp[1] \o sc.ret \o sp[3]
          ELSE sp[1] \o accent_rules(convert_to_acute(sp[2])) \o sp[3]

\* the closure of split_inclusive: hyphen, em dash, whitespace
is_separator(ch) == ch = 45 \/ ch = 8212 \/ is_whitespace(ch)

RECURSIVE split_inclusive_from(_, _)
\* cur is the segment being read; a separator closes it and belongs to it
split_inclusive_from(cur, s) ==
  IF s = <<>> THEN (IF cur = <<>> THEN <<>> ELSE <<cur>>)
  ELSE IF is_separator(Head(s)) THEN <<Append(cur, Head(s))>> \o split_inclusive_from(<<>>, Tail(s))
  ELSE split_inclusive_from(Append(cur, Head(s)), Tail(s))

split_inclusive(s) == split_inclusive_from(<<>>, s)

\* DIAERESES_WRONG[i], DIAERESES_CORRECT[i]: άϊ άϋ έϊ έϋ όϊ όϋ ούϊ and their capitalized forms
DIAERESES ==
  {<<<<940, 970>>, <<940, 953>>>>, <<<<902, 970>>, <<902, 953>>>>,
   <<<<940, 971>>, <<940, 965>>>>, <<<<902, 971>>, <<902, 965>>>>,
   <<<<941, 970>>, <<941, 953>>>>, <<<<904, 970>>, <<904, 953>>>>,
   <<<<941, 971>>, <<941, 965>>>>, <<<<904, 971>>, <<904, 965>>>>,
   <<<<972, 970>>, <<972, 953>>>>, <<<<908, 970>>, <<908, 953>>>>,
   <<<<972, 971>>, <<972, 965>>>>, <<<<908, 971>>, <<908, 965>>>>,
   <<<<959, 973, 970>>, <<959, 973, 953>>>>, <<<<927, 973, 970>>, <<927, 973, 953>>>>}

\* replace_all: no two patterns overlap and a pattern and its replacement have the same
\* number of chars, so the char at i is replaced by the char of the replacement of the
\* match that covers i
remove_superfluous_diaereses(s) ==
  [i \in 1..Len(s) |->
     IF \E d \in DIAERESES : \E j \in 1..i :
          j + Len(d[1]) - 1 >= i /\ j + Len(d[1]) - 1 <= Len(s)
          /\ SubSeq(s, j, j + Len(d[1]) - 1) = d[1]
     THEN LET m == CHOOSE m \in DIAERESES \X (1..i) :
                     /\ m[2] + Len(m[1][1]) - 1 >= i
                     /\ m[2] + Len(m[1][1]) - 1 <= Len(s)
                     /\ SubSeq(s, m[2], m[2] + Len(m[1][1]) - 1) = m[1][1]
          IN m[1][2][i - m[2] + 1]
     ELSE s[i]]

RECURSIVE map_words(_)
map_words(segs) ==
  IF segs = <<>> THEN <<>> ELSE <<to_monotonic_word(Head(segs))>> \o map_words(Tail(segs))

to_monotonic(s) == remove_superfluous_diaereses(concat(map_words(split_inclusive(s))))

(***************************** syllabify_el ********************************)
\* The exception lexicon: word forms with their precomputed syllables. Two entries stand
\* for the generated table: νιο and η-νιο, which the scanner splits as νι-ο and η-νι-ο.
LEXICON ==
  (<<957, 953, 959>> :> <<<<957, 953, 959>>>>) @@
  (<<951, 957, 953, 959>> :> <<<<951>>, <<957, 953, 959>>>>)

\* Option<&[&str]>: found tells Some from None
lookup_synizesis(s) ==
  IF s \in DOMAIN LEXICON THEN [found |-> TRUE, res |-> LEXICON[s]]
  ELSE [found |-> FALSE, res |-> <<>>]

syllabify_el(s) ==
  IF lookup_synizesis(s).found THEN lookup_synizesis(s).res
  ELSE syllabify_el_ref(s, Never).out

\* syllabify_el on entry: the lookup comes first, the scanner's locals are those of
\* syllabify_el_ref(s, Merge::Never)
syllabify_el_init(s) == [el_init(s, Never) EXCEPT !.pc = "lookup"]

\* syllabify_el_mode entering through the lexicon lookup
syllabify_el_mode_init_lookup(s, m) == [el_init(s, m) EXCEPT !.pc = "lookup"]

\* syllabify_el_mode on entry: syllabify_el_ref(s, merge), with no lookup
syllabify_el_mode_init(s, m) == el_init(s, m)

\* the match of syllabify_el: Some(res) returns res, None runs the scanner
syllabify_el_match(L, s) ==
  IF lookup_synizesis(s).found THEN [L EXCEPT !.pc = "done", !.out = lookup_synizesis(s).res]
  ELSE [L EXCEPT !.pc = "scan"]

(***************************** the calls ***********************************)
idle == [pc |-> "idle"]

\* call: "el" is syllabify_el_mode(word, merge), "auto" is syllabify_el(word), "gr" is
\* syllabify_gr_ref(word) followed by syllabify_gr(word)
Init ==
  /\ word \in Words
  /\ call \in {"el", "auto", "gr"}
  /\ merge \in (IF call = "el" THEN Policies ELSE {Never})
  /\ el = CASE call = "el" -> syllabify_el_mode_init(word, merge)
            [] call = "auto" -> syllabify_el_init(word)
            [] OTHER -> idle
  /\ gr = IF call = "gr" THEN gr_init(word) ELSE idle
  /\ lg = IF call = "gr" THEN lang_init(word) ELSE idle
  /\ ret = idle
  /\ arr = idle

SyllabifyEl ==
  /\ el.pc = "lookup"
  /\ el' = syllabify_el_match(el, word)
  /\ UNCHANGED <<ret, arr, word, merge, call, gr, lg>>

ElRefStep ==
  /\ el.pc = "scan"
  /\ el.it > 0
  /\ \E debug \in BOOLEAN : el' = el_step(el, word, merge, debug)
  /\ UNCHANGED <<ret, arr, word, merge, call, gr, lg>>

ElRefFinish ==
  /\ el.pc = "scan"
  /\ el.it = 0
  /\ el' = el_finish(el, word)
  /\ UNCHANGED <<ret, arr, word, merge, call, gr, lg>>

GrRefStep ==
  /\ gr.pc = "scan"
  /\ gr.it > 0
  /\ gr' = gr_step(gr, word)
  /\ UNCHANGED <<ret, arr, word, merge, call, el, lg>>

GrRefFinish ==
  /\ gr.pc = "scan"
  /\ gr.it = 0
  /\ gr' = gr_finish(gr, word)
  /\ UNCHANGED <<ret, arr, word, merge, call, el, lg>>

\* syllabify_gr(s) = syllabify_lang(s, &GR, Merge::Never), called once syllabify_gr_ref returned
LangStep ==
  /\ gr.pc = "done"
  /\ lg.pc = "loop"
  /\ \E debug \in BOOLEAN : lg' = lang_step(lg, word, GR, merge, debug)
  /\ UNCHANGED <<ret, arr, word, merge, call, el, gr>>

Next == SyllabifyEl \/ ElRefStep \/ ElRefFinish \/ GrRefStep \/ GrRefFinish \/ LangStep

Spec == Init /\ [][Next]_vars

(***************************** long words **********************************)
\* Words of LongMin..LongMax times 'α': one syllable per char, as many as the u8 counter holds.
LongMin == 254
LongMax == 256

LongWords == {[i \in 1..n |-> 945] : n \in LongMin..LongMax}

InitLong ==
  /\ word \in LongWords
  /\ call \in {"el", "auto", "gr"}
  /\ merge = Never
  /\ el = CASE call = "el" -> syllabify_el_mode_init(word, merge)
            [] call = "auto" -> syllabify_el_init(word)
            [] OTHER -> idle
  /\ gr = IF call = "gr" THEN gr_init(word) ELSE idle
  /\ lg = IF call = "gr" THEN lang_init(word) ELSE idle
  /\ ret = idle
  /\ arr = idle

SpecLong == InitLong /\ [][Next]_vars

(***************************** consonant runs ******************************)
\* Words ο C .. C ο with 1..MaxCons consonants between the vowels.
MaxCons == 3

\* σ τ ρ ν θ μ π
ClusterCons == {963, 964, 961, 957, 952, 956, 960}

ClusterWords ==
  {<<959>> \o cs \o <<959>> : cs \in UNION {[1..n -> ClusterCons] : n \in 1..MaxCons}}

InitCluster ==
  /\ word \in ClusterWords
  /\ call \in {"el", "auto", "gr"}
  /\ merge \in (IF call = "el" THEN Policies ELSE {Never})
  /\ el = CASE call = "el" -> syllabify_el_mode_init(word, merge)
            [] call = "auto" -> syllabify_el_init(word)
            [] OTHER -> idle
  /\ gr = IF call = "gr" THEN gr_init(word) ELSE idle
  /\ lg = IF call = "gr" THEN lang_init(word) ELSE idle
  /\ ret = idle
  /\ arr = idle

SpecCluster == InitCluster /\ [][Next]_vars

(***************************** the char-array scanner **********************)
\* call "arr" is _syllabify_el_ref(word, merge)
InitArr ==
  /\ word \in Words
  /\ call = "arr"
  /\ merge \in Policies
  /\ el = idle
  /\ gr = idle
  /\ lg = idle
  /\ ret = idle
  /\ arr = arr_init(word, merge)

ElArrStep ==
  /\ arr.pc = "scan"
  /\ arr.it > 0
  /\ \E debug \in BOOLEAN : arr' = arr_step(arr, word, merge, debug)
  /\ UNCHANGED <<ret, word, merge, call, el, gr, lg>>

ElArrFinish ==
  /\ arr.pc = "scan"
  /\ arr.it = 0
  /\ arr' = arr_finish(arr, word)
  /\ UNCHANGED <<ret, word, merge, call, el, gr, lg>>

NextArr == ElArrStep \/ ElArrFinish

SpecArr == InitArr /\ [][NextArr]_vars

(***************************** texts ***************************************)
\* The chars texts are drawn from: a text is over one of these alphabets.
TextAlphabets ==
  { {120, 940, 970, 32, 7936},        \* x ά ϊ space ἀ : words of both kinds, a breathing
    {960, 959, 8058, 45, 101},        \* π ο ὺ - e : a special case, the hyphen
    {46, 945, 97, 700, 49, 8127},     \* . α a ʼ 1 ᾿ : punctuation around letters
    {940, 953, 957, 902, 965} }       \* ά ι ν Ά υ : accented pairs and a consonant

Texts == UNION {WordsOver(A, MaxLen) : A \in TextAlphabets}

\* the Greek words of s are special cases or have no acute once converted: the words
\* accent_rules covers
mono_modelled(s) ==
  \A k \in 1..Len(split_inclusive(s)) :
    LET seg == split_inclusive(s)[k]
        core == split_punctuation(seg)[2]
    IN is_greek_word(seg) => (special_cases(core).found \/ ~has_acute(convert_to_acute(core)))

\* call names the function called on word
InitText ==
  /\ word \in Texts
  /\ call \in {"to_monotonic", "split_punctuation", "ends_with_diphthong"}
  /\ call = "to_monotonic" => mono_modelled(word)
  /\ merge = Never
  /\ el = idle
  /\ gr = idle
  /\ lg = idle
  /\ ret = [pc |-> "called"]
  /\ arr = idle

ToMonotonic ==
  /\ call = "to_monotonic"
  /\ ret.pc = "called"
  /\ ret' = [pc |-> "returned", val |-> to_monotonic(word)]
  /\ UNCHANGED <<arr, word, merge, call, el, gr, lg>>

SplitPunctuation ==
  /\ call = "split_punctuation"
  /\ ret.pc = "called"
  /\ ret' = [pc |-> "returned", val |-> split_punctuation(word)]
  /\ UNCHANGED <<arr, word, merge, call, el, gr, lg>>

EndsWithDiphthong ==
  /\ call = "ends_with_diphthong"
  /\ ret.pc = "called"
  /\ ret' = [pc |-> "returned", val |-> ends_with_diphthong(word)]
  /\ UNCHANGED <<arr, word, merge, call, el, gr, lg>>

NextText == ToMonotonic \/ SplitPunctuation \/ EndsWithDiphthong

SpecText == InitText /\ [][NextText]_vars

(***************************** chars ***************************************)
\* The chars the classifier is called on: ASCII, the combining marks, Greek and Coptic,
\* Greek Extended, and the chars next to the two ranges.
Chars == (0..127) \cup (768..1030) \cup (7930..8200)

\* call "is_vowel_el_opt" is is_vowel_el_opt(ch), word holding the one char ch
InitChar ==
  /\ word \in {<<ch>> : ch \in Chars}
  /\ call = "is_vowel_el_opt"
  /\ merge = Never
  /\ el = idle
  /\ gr = idle
  /\ lg = idle
  /\ ret = [pc |-> "called"]
  /\ arr = idle

IsVowelElOpt ==
  /\ call = "is_vowel_el_opt"
  /\ ret.pc = "called"
  /\ ret' = [pc |-> "returned", val |-> is_vowel_el_opt(word[1])]
  /\ UNCHANGED <<arr, word, merge, call, el, gr, lg>>

NextChar == IsVowelElOpt

SpecChar == InitChar /\ [][NextChar]_vars

(***************************** properties **********************************)
RECURSIVE boundaries(_)
\* the char positions at which the syllables v of a word meet
boundaries(v) ==
  IF Len(v) <= 1 THEN {}
  ELSE {Len(Head(v))} \cup {Len(Head(v)) + b : b \in boundaries(Tail(v))}

\* a finished call of syllabify_el_mode, of syllabify_gr_ref, of syllabify_gr
el_returned == call = "el" /\ el.pc = "done"

gr_ref_returned == call = "gr" /\ gr.pc = "done"

gr_returned == call = "gr" /\ lg.pc = "done"

strictly_decreasing(v) == \A i \in 1..(Len(v) - 1) : v[i] > v[i + 1]

\* C1: the syllables a call returns, joined in order, are the word: for syllabify_el_mode
\* under every merge policy, for syllabify_gr and for syllabify_gr_ref.
C1_LosslessPartition ==
  /\ el_returned => concat(el.out) = word
  /\ gr_ref_returned => concat(gr.out) = word
  /\ gr_returned => concat(lg.syllables) = word

\* a word of chars of one, two and three bytes returned in three syllables
C1_Witness ==
  /\ el_returned
  /\ Len(el.out) = 3
  /\ {len_utf8(word[i]) : i \in 1..Len(word)} = {1, 2, 3}

\* C2: every syllable syllabify_el_mode returns is non-empty; the offsets handed to
\* dump_at during one scan are strictly decreasing.
C2_NonEmptySyllables ==
  /\ el_returned => \A i \in 1..Len(el.out) : el.out[i] # <<>>
  /\ call = "el" => strictly_decreasing(el.emitted)

\* C3: syllabify_gr(w) and syllabify_gr_ref(w) return the same syllables for every w.
C3_DifferentialAncient ==
  (gr_ref_returned /\ gr_returned) => lg.syllables = gr.out

\* C4: Merge::Every returns at most as many syllables as Merge::Never.
C4_MergeMonotonic ==
  (el_returned /\ merge = Every) => Len(el.out) <= Len(syllabify_el_mode(word, Never))

\* a word on which merging removes a syllable
C4_Witness ==
  /\ el_returned
  /\ merge = Every
  /\ Len(el.out) < Len(syllabify_el_mode(word, Never))

\* C5: no call fails: no slice out of range or with start > end, no failed debug
\* assertion, no overflow of the syllable counter.
C5_Total == el.pc # "panic" /\ gr.pc # "panic" /\ lg.pc # "panic"

\* C6: the empty word yields no syllable and a non-empty word at least one, for
\* syllabify_el_mode under every merge policy, syllabify_gr_ref and syllabify_gr.
C6_EmptyIffEmpty ==
  /\ el_returned => (el.out = <<>> <=> word = <<>>)
  /\ gr_ref_returned => (gr.out = <<>> <=> word = <<>>)
  /\ gr_returned => (lg.syllables = <<>> <=> word = <<>>)

\* both Ancient functions returned no syllable for the empty word
C6_Witness == gr_ref_returned /\ gr_returned /\ word = <<>> /\ gr.out = <<>> /\ lg.syllables = <<>>

\* the scanner's own classification: is_vowel_el_opt in syllabify_el_ref, is_vowel with GR
\* in syllabify_gr_ref and syllabify_lang
no_vowel_el == \A i \in 1..Len(word) : ~is_vowel_el_opt(word[i])

no_vowel_gr == \A i \in 1..Len(word) : ~is_vowel_gr(word[i])

non_greek == \A i \in 1..Len(word) : ~is_greek_char(word[i]) /\ word[i] \notin {ACUTE, ROUGH}

\* C8 as stated: a non-empty word of non-Greek chars is returned whole, as one syllable,
\* by syllabify_el_mode(_, Never) and by syllabify_gr.
C8_NonGreekOneSyllable ==
  (word # <<>> /\ non_greek) =>
    /\ (el_returned /\ merge = Never) => el.out = <<word>>
    /\ gr_returned => lg.syllables = <<word>>

\* C8 amended: syllabify_el_mode(_, Never) returns it whole; syllabify_gr returns it whole
\* when it holds no '~', which VOWELS_GR lists as a vowel.
C8_NonGreekOneSyllableButTilde ==
  (word # <<>> /\ non_greek) =>
    /\ (el_returned /\ merge = Never) => el.out = <<word>>
    /\ (gr_returned /\ \A i \in 1..Len(word) : word[i] # TILDE) => lg.syllables = <<word>>

\* syllabify_gr returned a word of digits, letters and dots whole
C8_Witness ==
  /\ gr_returned
  /\ non_greek
  /\ Len(word) = MaxLen
  /\ \A i \in 1..Len(word) : word[i] # TILDE
  /\ lg.syllables = <<word>>

\* C9: Indices(&[]) returns what Never returns; Indices(S) returns what Every returns
\* when S holds every integer from 1 to the number of syllables Every returns.
C9_IndicesAfterMerging ==
  (el_returned /\ merge.kind = "Indices") =>
    /\ merge.idxs = {} => el.out = syllabify_el_mode(word, Never)
    /\ (1..Len(syllabify_el_mode(word, Every))) \subseteq merge.idxs =>
         el.out = syllabify_el_mode(word, Every)

\* Indices(S) covered the syllables of Every on a word that Never splits further
C9_Witness ==
  /\ el_returned
  /\ merge.kind = "Indices"
  /\ Len(el.out) >= 2
  /\ (1..Len(el.out)) \subseteq merge.idxs
  /\ el.out = syllabify_el_mode(word, Every)
  /\ el.out # syllabify_el_mode(word, Never)

\* two adjacent vowels (by the scanner's classification) at positions i, i + 1, the
\* second with a diaeresis
diaeresis_pairs(vowel(_)) ==
  {i \in 1..(Len(word) - 1) :
     vowel(word[i]) /\ vowel(word[i + 1]) /\ has_diaeresis(word[i + 1])}

\* C10: under Merge::Never, and in syllabify_gr, a syllable boundary falls between any
\* two adjacent vowels of which the second carries a diaeresis.
C10_DiaeresisSplits ==
  /\ (el_returned /\ merge = Never) =>
       diaeresis_pairs(is_vowel_el_opt) \subseteq boundaries(el.out)
  /\ gr_returned => diaeresis_pairs(is_vowel_gr) \subseteq boundaries(lg.syllables)

\* a diphthong pair (α or ε before ϋ or ϊ) that is no candidate pair, split by Never
C10_Witness ==
  /\ el_returned
  /\ merge = Never
  /\ \E i \in diaeresis_pairs(is_vowel_el_opt) :
       /\ <<base_lower(word[i]), base_lower(word[i + 1])>> \in DIPHTHONGS_EL
       /\ <<word[i], word[i + 1]>> \notin CANDIDATE_MERGING_DIPHTHONGS_EL
       /\ i \in boundaries(el.out)

\* the positions i at which word[i], word[i + 1] is a pair of CANDIDATE_MERGING_DIPHTHONGS_EL
candidate_pairs ==
  {i \in 1..(Len(word) - 1) : <<word[i], word[i + 1]>> \in CANDIDATE_MERGING_DIPHTHONGS_EL}

overlapped_pair(i) ==
  /\ i >= 2
  /\ word[i + 1] = IOTA
  /\ is_vowel_el_opt(word[i - 1])
  /\ word[i - 1] \notin {IOTA, UPSILON, ETA}
  /\ ~is_candidate_diphthong(<<word[i - 1], word[i]>>)
  /\ is_diphthong_el(<<word[i - 1], word[i]>>)

el_auto_returned == call = "auto" /\ el.pc = "done"

\* C12: syllabify_el returns the lexicon's syllables for a word the lookup finds and what
\* syllabify_el_mode(w, Never) returns otherwise; syllabify_el_mode returns the scanner's
\* result whether or not the word is in the lexicon.
C12_LexiconThenNever ==
  /\ el_auto_returned =>
       el.out = IF word \in DOMAIN LEXICON THEN LEXICON[word]
                ELSE syllabify_el_mode(word, Never)
  /\ el_returned => el.out = syllabify_el_ref(word, merge).out

\* syllabify_el returned a lexicon entry that differs from the scanner's syllables
C12_Witness ==
  /\ el_auto_returned
  /\ word \in DOMAIN LEXICON
  /\ el.out = LEXICON[word]
  /\ el.out # syllabify_el_mode(word, Never)

\* a finished call of to_monotonic, split_punctuation, ends_with_diphthong
mono_returned == call = "to_monotonic" /\ ret.pc = "returned"

split_returned == call = "split_punctuation" /\ ret.pc = "returned"

ends_returned == call = "ends_with_diphthong" /\ ret.pc = "returned"

\* where the k-th word of the text starts in the output: after the converted words before it
word_offset(segs, k) == Len(concat(map_words(SubSeq(segs, 1, k - 1))))

\* C13: every word of the text (a segment ending at whitespace, '-' or '—') that is no
\* Greek word stands in the output of to_monotonic as it stands in the input.
C13_NonGreekWordsUnchanged ==
  mono_returned =>
    LET segs == split_inclusive(word)
    IN \A k \in 1..Len(segs) :
         ~is_greek_word(segs[k]) =>
           SubSeq(ret.val, word_offset(segs, k) + 1, word_offset(segs, k) + Len(segs[k]))
             = segs[k]

\* C14: split_punctuation(s) = (left, core, right) joins back to s; left and right hold
\* punctuation only; core is empty or begins and ends with a char that is no punctuation;
\* a string of punctuation only gives (s, "", "").
C14_SplitPunctuation ==
  split_returned =>
    LET left == ret.val[1]
        core == ret.val[2]
        right == ret.val[3]
    IN /\ left \o core \o right = word
       /\ \A i \in 1..Len(left) : ~not_punct(left[i])
       /\ \A i \in 1..Len(right) : ~not_punct(right[i])
       /\ core = <<>> \/ (not_punct(core[1]) /\ not_punct(core[Len(core)]))
       /\ not_punct_at(word) = {} => ret.val = <<word, <<>>, <<>>>>

\* punctuation on the left, and a core with punctuation inside it
C14_Witness ==
  /\ split_returned
  /\ ret.val[1] # <<>>
  /\ \E i \in 2..(Len(ret.val[2]) - 1) : ~not_punct(ret.val[2][i])

\* C15: ends_with_diphthong(s) is true exactly when two adjacent chars of s are one of
\* the twelve accented pairs and only consonants follow them.
C15_EndsWithDiphthongExact ==
  ends_returned =>
    (ret.val <=>
       \E k \in 1..(Len(word) - 1) :
         /\ <<word[k], word[k + 1]>> \in DIPHTHONGS
         /\ \A j \in (k + 2)..Len(word) : word[j] \in CONSONANTS)

\* the positions i of a run V1 C V2 at i, i + 1, i + 2: C the only char between two vowels,
\* by the classifier of the scanner
vcv(vowel(_)) ==
  {i \in 1..(Len(word) - 2) : vowel(word[i]) /\ ~vowel(word[i + 1]) /\ vowel(word[i + 2])}

\* the boundary falls after position i and not after position i + 1
splits_after(v, i) == i \in boundaries(v) /\ (i + 1) \notin boundaries(v)

vcv_gr == {i \in vcv(is_vowel_gr) : word[i + 1] # ROUGH}

cons_el(ch) == ~is_vowel_el_opt(ch)

cons_gr(ch) == ~is_vowel_gr(ch) /\ ch # ROUGH

\* the positions i of a run V1 C1 C2 V2 at i .. i + 3
vccv(vowel(_), cons(_)) ==
  {i \in 1..(Len(word) - 3) :
     vowel(word[i]) /\ cons(word[i + 1]) /\ cons(word[i + 2]) /\ vowel(word[i + 3])}

\* the one boundary among the positions i .. i + n - 1 is after position b
only_boundary(v, i, n, b) == boundaries(v) \cap (i..(i + n - 1)) = {b}

in_table(a, b, table) == <<base_lower(a), base_lower(b)>> \in table

\* C17: in V1 C1 C2 V2 the boundary falls before C1 when the base-lowered pair (C1, C2) is
\* in the cluster table of the rule set and between C1 and C2 otherwise; having read C1 the
\* scanner is in FoundConsonant in the first case and back in Start in the second.
C17_TwoConsonants ==
  /\ el_returned =>
       \A i \in vccv(is_vowel_el_opt, cons_el) :
         only_boundary(el.out, i, 3,
           IF in_table(word[i + 1], word[i + 2], CONS_CLUSTERS_EL) THEN i ELSE i + 1)
  /\ (call = "el" /\ el.pc = "scan") =>
       \A i \in vccv(is_vowel_el_opt, cons_el) :
         el.it = i =>
           el.state = IF in_table(word[i + 1], word[i + 2], CONS_CLUSTERS_EL)
                      THEN "FoundConsonant" ELSE "Start"
  /\ gr_ref_returned =>
       \A i \in vccv(is_vowel_gr, cons_gr) :
         only_boundary(gr.out, i, 3,
           IF in_table(word[i + 1], word[i + 2], CONS_CLUSTERS_GR) THEN i ELSE i + 1)
  /\ (call = "gr" /\ gr.pc = "scan") =>
       \A i \in vccv(is_vowel_gr, cons_gr) :
         gr.it = i =>
           gr.state = IF in_table(word[i + 1], word[i + 2], CONS_CLUSTERS_GR)
                      THEN "FoundConsonant" ELSE "Start"
  /\ gr_returned =>
       \A i \in vccv(is_vowel_gr, cons_gr) :
         only_boundary(lg.syllables, i, 3,
           IF in_table(word[i + 1], word[i + 2], CONS_CLUSTERS_GR) THEN i ELSE i + 1)

\* the upper-case cluster ΣΤ kept with the vowel after it
C17_Witness ==
  /\ el_returned
  /\ \E i \in vccv(is_vowel_el_opt, cons_el) :
       /\ <<word[i + 1], word[i + 2]>> \notin CONS_CLUSTERS_EL
       /\ in_table(word[i + 1], word[i + 2], CONS_CLUSTERS_EL)
       /\ only_boundary(el.out, i, 3, i)

\* the runs V1 C C V2 with the same consonant twice
vccv_same(vowel(_), cons(_)) ==
  {i \in vccv(vowel, cons) : base_lower(word[i + 1]) = base_lower(word[i + 2])}

\* C18: in V1 C C V2 the boundary falls between the two Cs, under both rule sets, and no
\* cluster table holds a pair of equal letters.
C18_IdenticalConsonants ==
  /\ \A p \in CONS_CLUSTERS_EL \cup CONS_CLUSTERS_GR : p[1] # p[2]
  /\ el_returned =>
       \A i \in vccv_same(is_vowel_el_opt, cons_el) : only_boundary(el.out, i, 3, i + 1)
  /\ gr_ref_returned =>
       \A i \in vccv_same(is_vowel_gr, cons_gr) : only_boundary(gr.out, i, 3, i + 1)
  /\ gr_returned =>
       \A i \in vccv_same(is_vowel_gr, cons_gr) : only_boundary(lg.syllables, i, 3, i + 1)

\* α σ σ α split as ασ-σα by syllabify_gr
C18_Witness ==
  /\ gr_returned
  /\ \E i \in vccv_same(is_vowel_gr, cons_gr) :
       /\ word[i + 1] \in CONSONANTS
       /\ only_boundary(lg.syllables, i, 3, i + 1)

\* the positions i of a run V1 C1 C2 C3 V2 at i .. i + 4, Modern rule set
vcccv ==
  {i \in 1..(Len(word) - 4) :
     /\ is_vowel_el_opt(word[i]) /\ is_vowel_el_opt(word[i + 4])
     /\ \A j \in 1..3 : cons_el(word[i + j])}

\* C19 as stated: in V1 C1 C2 C3 V2, Modern rule set, the boundary falls before C1 when
\* (C1, C2) is in the Modern cluster table and after C1 when it is not.
C19_ThreeConsonants ==
  el_returned =>
    \A i \in vcccv :
      only_boundary(el.out, i, 4,
        IF in_table(word[i + 1], word[i + 2], CONS_CLUSTERS_EL) THEN i ELSE i + 1)

\* a Greek vowel letter: its lowercase base letter is α, ε, η, ι, ο, υ or ω
vowel_letter(ch) == base_lower(ch) \in VOWELS_EL

\* C20: under Merge::Never no syllable syllabify_el_mode returns holds three consecutive
\* Greek vowel letters.
C20_NoThreeVowelNucleus ==
  (el_returned /\ merge = Never) =>
    \A k \in 1..Len(el.out) : \A i \in 1..(Len(el.out[k]) - 2) :
      ~(vowel_letter(el.out[k][i]) /\ vowel_letter(el.out[k][i + 1])
          /\ vowel_letter(el.out[k][i + 2]))

\* the positions i of a lowercase run V υ ι at i, i + 1, i + 2 with (V, υ) a diphthong, the
\* run ending the word or followed by a Greek consonant
overlapping_runs ==
  {i \in 1..(Len(word) - 2) :
     /\ word[i] \in {945, 949, 959, 951}
     /\ word[i + 1] = UPSILON
     /\ word[i + 2] = IOTA
     /\ (i + 2 = Len(word) \/ word[i + 3] \in CONSONANTS)}

\* V and υ together, the boundary between υ and ι
splits_before_iota(v, i) == i \notin boundaries(v) /\ (i + 1) \in boundaries(v)

\* C21: in a lowercase run V υ ι with (V, υ) a diphthong, at the end of the word or before
\* consonants, syllabify_gr, syllabify_gr_ref and syllabify_el_mode under Merge::Never keep
\* V and υ in one syllable and put the boundary between υ and ι.
C21_OverlappingDiphthongs ==
  /\ (el_returned /\ merge = Never) =>
       \A i \in overlapping_runs : splits_before_iota(el.out, i)
  /\ gr_ref_returned => \A i \in overlapping_runs : splits_before_iota(gr.out, i)
  /\ gr_returned => \A i \in overlapping_runs : splits_before_iota(lg.syllables, i)

\* η υ ι before a consonant, split as ηυ-ισ by the three functions
C21_Witness ==
  /\ gr_returned
  /\ gr_ref_returned
  /\ \E i \in overlapping_runs :
       /\ word[i] = ETA
       /\ i + 2 < Len(word)
       /\ splits_before_iota(lg.syllables, i)
       /\ splits_before_iota(gr.out, i)
       /\ splits_before_iota(syllabify_el_mode(word, Never), i)

\* a finished call of _syllabify_el_ref
arr_returned == call = "arr" /\ arr.pc = "done"

\* C22: for every word and every merge policy, _syllabify_el_ref returns the syllables
\* syllabify_el_ref returns, and fails on no word on which syllabify_el_ref does not fail.
C22_DifferentialModern ==
  /\ arr_returned => arr.out = syllabify_el_ref(word, merge).out
  /\ call = "arr" => arr.pc # "panic"

\* the two returned the same three syllables of a word with chars of 1, 2 and 3 bytes
C22_Witness ==
  /\ arr_returned
  /\ Len(arr.out) = 3
  /\ arr.out = syllabify_el_ref(word, merge).out
  /\ {len_utf8(word[i]) : i \in 1..Len(word)} = {1, 2, 3}

\* parse_syllable_break on every cursor of the word, for both rule sets and both values of
\* merge: Some(to) with to < fr when fr > 0, None when fr = 0
break_progress ==
  \A lang \in {GR, EL} : \A m \in BOOLEAN :
    /\ parse_syllable_break(word, 0, lang, m) = -1
    /\ \A fr \in 1..Len(word) : parse_syllable_break(word, fr, lang, m) \in 0..(fr - 1)

\* syllabify_lang is running or has returned
lang_called == call = "gr" /\ gr.pc = "done"

\* C23: in syllabify_lang parse_syllable_break returns Some(to) with to < fr whenever fr > 0
\* and None only when fr = 0. So the cursor has gone down by at least one per syllable
\* pushed, the loop is left when the cursor is 0 and not before, the iterations begun
\* (idx_syllable - 1) are at most len(chs) + 1, and no syllable syllabify_gr returns is empty.
C23_ProgressAndTermination ==
  lang_called =>
    /\ lg.pc = "loop" => break_progress
    /\ lg.fr + Len(lg.syllables) <= Len(word)
    /\ lg.pc = "done" <=> (lg.fr = 0 /\ lg.idx_syllable - 1 = Len(lg.syllables) + 1)
    /\ lg.pc = "loop" => lg.idx_syllable - 1 = Len(lg.syllables)
    /\ lg.idx_syllable - 1 <= Len(word) + 1
    /\ \A k \in 1..Len(lg.syllables) : lg.syllables[k] # <<>>

\* the loop ended on its last admissible iteration: one syllable per char of the word
C23_Witness ==
  /\ gr_returned
  /\ Len(word) = MaxLen
  /\ Len(lg.syllables) = Len(word)
  /\ lg.idx_syllable - 1 = Len(word) + 1

\* the pair (byte offset, char) of the char k places to the right of the current one, or
\* the filler (0, '\0') when the word ends before it
char_at_right(k) ==
  IF el.it + k < Len(word)
  THEN <<get_byte_offset(el.it + k, word), word[el.it + k + 1]>>
  ELSE <<0, NUL>>

\* a call of syllabify_el_ref that has read at least one char
el_scanning == call \in {"el", "auto"} /\ el.pc \in {"scan", "done", "panic"} /\ el.it < Len(word)

\* C24: after every step of syllabify_el_ref buffer[0], buffer[1], buffer[2] are the current
\* char, the char to its right and the one after that, each with its byte offset; buf_len
\* counts them; neither debug_assert!(buf_len >= 2) nor debug_assert!(buf_len >= 3) fails.
C24_LookAheadBuffer ==
  /\ el_scanning =>
       /\ \A k \in 0..2 : el.buffer[k + 1] = char_at_right(k)
       /\ el.buf_len = Min(Len(word) - el.it, 3)
  /\ call \in {"el", "auto"} => el.fault # "assert"

\* under Merge::Never the scanner, at the first vowel of a diphthong that ends in υ and is
\* not at the start of the word, read buffer[2] as 'ι' and dumped at its offset
C24_Witness ==
  /\ call = "el"
  /\ merge = Never
  /\ el.pc = "scan"
  /\ el.state = "FoundVowel"
  /\ el.it > 0
  /\ el.buf_len = 3
  /\ el.buffer[2][2] = UPSILON
  /\ <<base_lower(el.buffer[1][2]), UPSILON>> \in DIPHTHONGS_EL
  /\ el.buffer[3][2] = IOTA
  /\ el.emitted # <<>>
  /\ el.emitted[Len(el.emitted)] = el.buffer[3][1]

\* C25: during a scan by syllabify_el_ref idx_syllable is 1 plus the number of boundaries
\* emitted so far and cur_merge is merge_to_bool at that value; in syllabify_lang
\* idx_syllable is 1 plus the number of iterations begun; on words with any number of
\* syllables the counter neither overflows nor wraps.
C25_SyllableCounter ==
  /\ call \in {"el", "auto"} /\ el.pc \in {"scan", "done", "panic"} =>
       /\ el.idx_syllable = 1 + Len(el.emitted)
       /\ el.cur_merge = merge_to_bool(1 + Len(el.emitted), merge)
       /\ el.fault # "overflow"
  /\ call = "gr" =>
       /\ lg.idx_syllable = 1 + Len(lg.syllables) + (IF lg.pc = "done" THEN 1 ELSE 0)
       /\ lg.fault # "overflow"

\* a finished call of is_vowel_el_opt
vowel_opt_returned == call = "is_vowel_el_opt" /\ ret.pc = "returned"

\* C26 as stated: is_vowel_el_opt(ch) is true exactly when base_lower(ch) is one of α, ο,
\* ε, ι, η, υ, ω.
C26_VowelClassification ==
  vowel_opt_returned => (ret.val <=> base_lower(word[1]) \in VOWELS_EL)

\* C26 amended: is_vowel_el_opt(ch) is true for every char whose base_lower is one of the
\* seven vowels, false for every char outside the two Greek ranges, and false for every
\* char whose base_lower is a Greek consonant; for the other chars of the two ranges it
\* may be true.
C26_VowelClassificationOneWay ==
  vowel_opt_returned =>
    /\ base_lower(word[1]) \in VOWELS_EL => ret.val
    /\ ~is_greek_char(word[1]) => ~ret.val
    /\ base_lower(word[1]) \in CONSONANTS => ~ret.val

\* a Greek Extended char with two marks and an iota subscript whose base letter is a vowel
C26_Witness ==
  /\ vowel_opt_returned
  /\ word[1] >= 7936
  /\ base_lower(word[1]) \in VOWELS_EL
  /\ word[1] \in {8068, 8084, 8100}
  /\ ret.val

\* C27: the boundaries of syllabify_el_mode(w, Every) are among those of
\* syllabify_el_mode(w, Indices(S)), which are among those of syllabify_el_mode(w, Never).
C27_MergingCoarsens ==
  el_returned =>
    /\ boundaries(syllabify_el_mode(word, Every)) \subseteq boundaries(el.out)
    /\ boundaries(el.out) \subseteq boundaries(syllabify_el_mode(word, Never))

\* an index set that removes one boundary of Never and keeps one that Every removes
C27_Witness ==
  /\ el_returned
  /\ merge.kind = "Indices"
  /\ boundaries(syllabify_el_mode(word, Every)) # boundaries(el.out)
  /\ boundaries(el.out) # boundaries(syllabify_el_mode(word, Never))

\* the syllable holds a char the scanner classifies as a vowel
has_nucleus(syl, vowel(_)) == \E i \in 1..Len(syl) : vowel(syl[i])

\* C28: on a word that holds at least one vowel, every syllable syllabify_el_mode(w, Never)
\* returns and every syllable syllabify_gr(w) returns holds at least one vowel.
C28_EverySyllableHasNucleus ==
  /\ (el_returned /\ merge = Never /\ ~no_vowel_el) =>
       \A k \in 1..Len(el.out) : has_nucleus(el.out[k], is_vowel_el_opt)
  /\ (gr_returned /\ ~no_vowel_gr) =>
       \A k \in 1..Len(lg.syllables) : has_nucleus(lg.syllables[k], is_vowel_gr)

\* Diacritic::DIAERESIS (U+0308)
DIAERESIS == 776

\* the combining marks of accents::Diacritic
COMBINING == {ACUTE, GRAVE, CIRCUMFLEX, DIAERESIS, ROUGH, SMOOTH, IOTA_SUBSCRIPT}

\* the positions i - 1 of a char followed by a combining mark at i
marked == {i \in 1..(Len(word) - 1) : word[i + 1] \in COMBINING}

\* C29: neither syllabify_el_mode (under any policy) nor syllabify_gr puts a syllable
\* boundary between a char and the combining mark that follows it.
C29_CombiningMarksStay ==
  /\ el_returned => marked \cap boundaries(el.out) = {}
  /\ gr_returned => marked \cap boundaries(lg.syllables) = {}

\* the upper-case form of a letter α..ω, plain or with an acute; final ς and σ both give Σ
upper_case(ch) ==
  CASE ch = 940 -> 902 [] ch = 941 -> 904 [] ch = 942 -> 905 [] ch = 943 -> 906
    [] ch = 972 -> 908 [] ch = 973 -> 910 [] ch = 974 -> 911
    [] ch = 962 -> 931
    [] OTHER -> ch - 32

\* the letters α..ω and ά έ ή ί ό ύ ώ
lower_letter(ch) == (ch >= 945 /\ ch <= 969) \/ ch \in {940, 941, 942, 943, 972, 973, 974}

upper_word == [i \in 1..Len(word) |-> upper_case(word[i])]

\* C30: for a word of letters α..ω with or without an acute, syllabify_el_mode puts its
\* boundaries at the same positions in the word and in its upper-case form, under every
\* merge policy.
C30_CaseIndependence ==
  (el_returned /\ \A i \in 1..Len(word) : lower_letter(word[i])) =>
    boundaries(el.out) = boundaries(syllabify_el_mode(upper_word, merge))

====
